---- MODULE Spec2Model ----
(***************************************************************************)
(* Model of the two Kortex example programs of this repository:            *)
(*   api_python/examples/tools/drawing.py            (arm motion sequence) *)
(*   api_python/examples/106-Gripper_command/02-gripper_grabPen.py         *)
(* drawing.py runs a controller thread (main and the two dispatch          *)
(* functions) against a notification delivery thread that invokes the      *)
(* closure returned by check_for_end_or_abort.                             *)
(***************************************************************************)
EXTENDS Integers, Sequences, FiniteSets, TLC

\* ------------------------------------------------------------------------
\* Bounds of the model
\* ------------------------------------------------------------------------
\* measurement requests of the gripper polling loop that the model follows
MaxPolls == 4

\* ------------------------------------------------------------------------
\* drawing.py: constants
\* ------------------------------------------------------------------------
\* the four rectangle points of main (points = [...])
NumPoints == 4
\* dispatches of one run: 0 = home, 1 = drawing start pose, 2.. = points
LastStep == NumPoints + 1
Steps == 0..LastStep

\* Base_pb2.ActionEvent values a notification can carry
TerminalEvents == {"ACTION_END", "ACTION_ABORT"}
ActionEvents == {"ACTION_START", "ACTION_PAUSE"} \cup TerminalEvents

\* the RPC calls of drawing.py, by the controller position that makes them
RpcPcs == {"m_fb0", "h_servo", "h_read", "m_fb1", "m_fb2", "c_fb",
           "subscribe", "execute", "execute_ret", "unsubscribe"}
\* the controller positions inside a dispatch function
DispatchPcs == {"h_servo", "h_read", "c_fb", "subscribe", "execute",
                "execute_ret", "wait", "unsubscribe", "return"}

VARIABLES
    pc,          \* position of the controller thread
    cur,         \* index of the dispatch in progress (or of the next one)
    success,     \* main: success
    exitCode,    \* value returned by main, -1 while it has not returned
    actionHandle,\* example_move_to_home_position: action_handle
    finished,    \* dispatch: finished (the result of e.wait)
    gate,        \* gate[k]: flag of the threading.Event e of dispatch k
    subscribed,  \* dispatches whose notification handle is registered
    executing,   \* actions issued for which no terminal event was emitted
    rets,        \* rets[k+1]: value returned by dispatch k
    ncalls,      \* calls of a dispatch function made by main so far
    servoCalls,  \* SetServoingMode calls so far
    subCount,    \* subCount[k]: OnNotificationActionTopic calls of dispatch k
    issued,      \* issued[k]: actions issued by dispatch k
    unsubCount,  \* unsubCount[k]: Unsubscribe calls of dispatch k
    expired,     \* dispatches whose e.wait timed out
    termSeen,    \* END/ABORT events the callback of the latest subscription
                 \* got before its e.wait returned
    otherSeen,   \* that callback got another event before e.wait returned
    ownTerm,     \* that callback got, before e.wait returned, the END/ABORT
                 \* of the action its own dispatch issued
    early,       \* that callback got END/ABORT before e.wait began
    late,        \* that callback got END/ABORT after e.wait timed out
    lateCalls,   \* dispatches whose callback ran after the dispatch returned
    gpc,         \* gripper: position in ExampleSendGripperCommands
    position,    \* gripper: position (a double)
    sent,        \* gripper: commands passed to SendGripperCommand, in order
    polls        \* gripper: answers of GetMeasuredGripperMovement, in order

hist == <<ncalls, servoCalls, subCount, issued, unsubCount>>
sigHist == <<termSeen, otherSeen, ownTerm, early, late, lateCalls>>
drawVars == <<pc, cur, success, exitCode, actionHandle, finished, gate,
              subscribed, executing, rets, hist, expired, sigHist>>
gripVars == <<gpc, position, sent, polls>>
vars == <<drawVars, gripVars>>

\* ------------------------------------------------------------------------
\* drawing.py: the callback
\* ------------------------------------------------------------------------
\* check_for_end_or_abort(e).check(notification): the flag of e afterwards
CheckOnlyEnd(flag, ev) == IF ev = "ACTION_END" THEN TRUE ELSE flag
check(flag, ev) ==
    IF ev = "ACTION_END" \/ ev = "ACTION_ABORT" THEN TRUE ELSE flag

\* dispatch k has returned to main
Returned(k) == k < Len(rets)
\* the value dispatch k returned
Ret(k) == rets[k + 1]
\* the e.wait of dispatch k has returned
WaitDone(k) == k < cur \/ (k = cur /\ pc \in {"unsubscribe", "return"})
\* dispatch k has subscribed and its e.wait has not begun
WaitNotBegun(k) == k = cur /\ pc \in {"execute", "execute_ret"}

\* ------------------------------------------------------------------------
\* drawing.py: the controller thread
\* ------------------------------------------------------------------------
DrawInit ==
    /\ pc = "m_fb0"
    /\ cur = 0
    /\ success = TRUE
    /\ exitCode = -1
    /\ actionHandle = "None"
    /\ finished = FALSE
    /\ gate = [k \in Steps |-> FALSE]
    /\ subscribed = {}
    /\ executing = {}
    /\ rets = <<>>
    /\ ncalls = 0
    /\ servoCalls = 0
    /\ subCount = [k \in Steps |-> 0]
    /\ issued = [k \in Steps |-> 0]
    /\ unsubCount = [k \in Steps |-> 0]
    /\ expired = {}
    /\ termSeen = {}
    /\ otherSeen = FALSE
    /\ ownTerm = FALSE
    /\ early = FALSE
    /\ late = FALSE
    /\ lateCalls = {}

\* ExampleSendGripperCommands has not run a statement yet
GripInit ==
    /\ gpc = "start"
    /\ position = [neg |-> FALSE, hi |-> 0, lo |-> 0]
    /\ sent = <<>>
    /\ polls = <<>>

Init == DrawInit /\ GripInit

\* main: success = True; feedback = base_cyclic.RefreshFeedback(), then the
\* call of example_move_to_home_position
MainFeedback0 ==
    /\ pc = "m_fb0"
    /\ pc' = "h_servo"
    /\ ncalls' = ncalls + 1
    /\ UNCHANGED <<cur, success, exitCode, actionHandle, finished, gate,
                   subscribed, executing, rets, servoCalls, subCount, issued,
                   unsubCount, expired, sigHist>>

\* example_move_to_home_position: base.SetServoingMode(base_servo_mode)
SetServoingMode ==
    /\ pc = "h_servo"
    /\ pc' = "h_read"
    /\ servoCalls' = servoCalls + 1
    /\ UNCHANGED <<cur, success, exitCode, actionHandle, finished, gate,
                   subscribed, executing, rets, ncalls, subCount, issued,
                   unsubCount, expired, sigHist>>

\* example_move_to_home_position: ReadAllActions, the search for "Home" and,
\* when it is absent, return False (with main's success &= False)
ReadAllActionsNoCheck ==
    /\ pc = "h_read"
    /\ \E found \in BOOLEAN :
          /\ actionHandle' = IF found THEN "Home" ELSE "None"
          /\ pc' = "subscribe"
          /\ UNCHANGED <<rets, success, cur>>
    /\ UNCHANGED <<exitCode, finished, gate, subscribed, executing, hist,
                   expired, sigHist>>
ReadAllActions ==
    /\ pc = "h_read"
    /\ \E found \in BOOLEAN :
          IF found
          THEN /\ actionHandle' = "Home"
               /\ pc' = "subscribe"
               /\ UNCHANGED <<rets, success, cur>>
          ELSE /\ actionHandle' = "None"
               /\ rets' = Append(rets, FALSE)
               /\ success' = FALSE
               /\ cur' = cur + 1
               /\ pc' = "m_fb1"
    /\ UNCHANGED <<exitCode, finished, gate, subscribed, executing, hist,
                   expired, sigHist>>

\* main: feedback = base_cyclic.RefreshFeedback() before the start pose, then
\* the call of example_cartesian_action_movement
MainFeedback1 ==
    /\ pc = "m_fb1"
    /\ pc' = "c_fb"
    /\ ncalls' = ncalls + 1
    /\ UNCHANGED <<cur, success, exitCode, actionHandle, finished, gate,
                   subscribed, executing, rets, servoCalls, subCount, issued,
                   unsubCount, expired, sigHist>>

\* main: feedback = base_cyclic.RefreshFeedback() before the points, then the
\* first iteration of  for pose_x, pose_y in points
MainFeedback2 ==
    /\ pc = "m_fb2"
    /\ pc' = "c_fb"
    /\ ncalls' = ncalls + 1
    /\ UNCHANGED <<cur, success, exitCode, actionHandle, finished, gate,
                   subscribed, executing, rets, servoCalls, subCount, issued,
                   unsubCount, expired, sigHist>>

\* example_cartesian_action_movement: feedback = base_cyclic.RefreshFeedback()
CartesianFeedbackSetsMode ==
    /\ pc = "c_fb"
    /\ pc' = "subscribe"
    /\ servoCalls' = servoCalls + 1
    /\ UNCHANGED <<cur, success, exitCode, actionHandle, finished, gate,
                   subscribed, executing, rets, ncalls, subCount, issued,
                   unsubCount, expired, sigHist>>
CartesianFeedback ==
    /\ pc = "c_fb"
    /\ pc' = "subscribe"
    /\ UNCHANGED <<cur, success, exitCode, actionHandle, finished, gate,
                   subscribed, executing, rets, hist, expired, sigHist>>

\* e = threading.Event(); notification_handle = base.OnNotificationActionTopic(
\*     check_for_end_or_abort(e), Base_pb2.NotificationOptions())
SubscribeReusesEvent ==
    /\ pc = "subscribe"
    /\ gate' = [gate EXCEPT ![cur] = (cur > 0 /\ Returned(cur - 1)
                                        /\ Ret(cur - 1))]
    /\ subscribed' = subscribed \cup {cur}
    /\ subCount' = [subCount EXCEPT ![cur] = @ + 1]
    /\ termSeen' = {}
    /\ otherSeen' = FALSE
    /\ ownTerm' = FALSE
    /\ early' = FALSE
    /\ late' = FALSE
    /\ pc' = "execute"
    /\ UNCHANGED <<cur, success, exitCode, actionHandle, finished, executing,
                   rets, ncalls, servoCalls, issued, unsubCount, expired,
                   lateCalls>>
Subscribe ==
    /\ pc = "subscribe"
    /\ gate' = [gate EXCEPT ![cur] = FALSE]
    /\ subscribed' = subscribed \cup {cur}
    /\ subCount' = [subCount EXCEPT ![cur] = @ + 1]
    /\ termSeen' = {}
    /\ otherSeen' = FALSE
    /\ ownTerm' = FALSE
    /\ early' = FALSE
    /\ late' = FALSE
    /\ pc' = "execute"
    /\ UNCHANGED <<cur, success, exitCode, actionHandle, finished, executing,
                   rets, ncalls, servoCalls, issued, unsubCount, expired,
                   lateCalls>>

\* base.ExecuteActionFromReference(action_handle) / base.ExecuteAction(action):
\* the request reaches the device, which starts the action
ExecuteAction ==
    /\ pc = "execute"
    /\ issued' = [issued EXCEPT ![cur] = @ + 1]
    /\ executing' = executing \cup {cur}
    /\ pc' = "execute_ret"
    /\ UNCHANGED <<cur, success, exitCode, actionHandle, finished, gate,
                   subscribed, rets, ncalls, servoCalls, subCount,
                   unsubCount, expired, sigHist>>

\* the reply of the ExecuteAction RPC arrives and the call returns
ExecuteActionClearsEvent ==
    /\ pc = "execute_ret"
    /\ pc' = "wait"
    /\ gate' = [gate EXCEPT ![cur] = FALSE]
    /\ UNCHANGED <<cur, success, exitCode, actionHandle, finished,
                   subscribed, executing, rets, hist, expired, sigHist>>
ExecuteActionReturn ==
    /\ pc = "execute_ret"
    /\ pc' = "wait"
    /\ UNCHANGED <<cur, success, exitCode, actionHandle, finished, gate,
                   subscribed, executing, rets, hist, expired, sigHist>>

\* finished = e.wait(TIMEOUT_DURATION) with the flag of e set: returns True
WaitSignaled ==
    /\ pc = "wait"
    /\ gate[cur]
    /\ finished' = TRUE
    /\ pc' = "unsubscribe"
    /\ UNCHANGED <<cur, success, exitCode, actionHandle, gate, subscribed,
                   executing, rets, hist, expired, sigHist>>

\* finished = e.wait(TIMEOUT_DURATION): TIMEOUT_DURATION elapses with the flag
\* of e still clear, returns False
WaitTimeoutRetries ==
    /\ pc = "wait"
    /\ ~gate[cur]
    /\ finished' = FALSE
    /\ expired' = expired \cup {cur}
    /\ pc' = IF cur \in expired THEN "unsubscribe" ELSE "execute"
    /\ UNCHANGED <<cur, success, exitCode, actionHandle, gate, subscribed,
                   executing, rets, hist, sigHist>>
WaitWithoutTimeout ==
    /\ FALSE
    /\ UNCHANGED vars
WaitTimeout ==
    /\ pc = "wait"
    /\ ~gate[cur]
    /\ finished' = FALSE
    /\ expired' = expired \cup {cur}
    /\ pc' = "unsubscribe"
    /\ UNCHANGED <<cur, success, exitCode, actionHandle, gate, subscribed,
                   executing, rets, hist, sigHist>>

\* base.Unsubscribe(notification_handle)
UnsubscribeIfFinished ==
    /\ pc = "unsubscribe"
    /\ subscribed' = IF finished THEN subscribed \ {cur} ELSE subscribed
    /\ unsubCount' = IF finished THEN [unsubCount EXCEPT ![cur] = @ + 1]
                     ELSE unsubCount
    /\ pc' = "return"
    /\ UNCHANGED <<cur, success, exitCode, actionHandle, finished, gate,
                   executing, rets, ncalls, servoCalls, subCount, issued,
                   expired, sigHist>>
Unsubscribe ==
    /\ pc = "unsubscribe"
    /\ subscribed' = subscribed \ {cur}
    /\ unsubCount' = [unsubCount EXCEPT ![cur] = @ + 1]
    /\ pc' = "return"
    /\ UNCHANGED <<cur, success, exitCode, actionHandle, finished, gate,
                   executing, rets, ncalls, servoCalls, subCount, issued,
                   expired, sigHist>>

\* the dispatch function returns: its local e is dropped with the frame
\* unless a registered callback still holds it
FrameDropped(g, k, subs) ==
    [g EXCEPT ![k] = IF k \in subs THEN @ ELSE FALSE]

\* the statement of main that follows dispatch k
AfterDispatch(k) ==
    IF k = 0 THEN "m_fb1"
    ELSE IF k = 1 THEN "m_fb2"
    ELSE IF k < LastStep THEN "c_fb"
    ELSE "m_ret"

\* return finished, and in main  success &= <the returned value>  followed by
\* the next statement (the loop over points calls the next dispatch)
ReturnOverwrites ==
    /\ pc = "return"
    /\ rets' = Append(rets, finished)
    /\ success' = finished
    /\ pc' = AfterDispatch(cur)
    /\ cur' = cur + 1
    /\ ncalls' = IF 1 < cur /\ cur < LastStep THEN ncalls + 1 ELSE ncalls
    /\ gate' = FrameDropped(gate, cur, subscribed)
    /\ UNCHANGED <<exitCode, actionHandle, finished, subscribed,
                   executing, servoCalls, subCount, issued, unsubCount,
                   expired, sigHist>>
ReturnReadsEvent ==
    /\ pc = "return"
    /\ rets' = Append(rets, gate[cur])
    /\ success' = (success /\ gate[cur])
    /\ pc' = AfterDispatch(cur)
    /\ cur' = cur + 1
    /\ ncalls' = IF 1 < cur /\ cur < LastStep THEN ncalls + 1 ELSE ncalls
    /\ gate' = FrameDropped(gate, cur, subscribed)
    /\ UNCHANGED <<exitCode, actionHandle, finished, subscribed,
                   executing, servoCalls, subCount, issued, unsubCount,
                   expired, sigHist>>
Return ==
    /\ pc = "return"
    /\ rets' = Append(rets, finished)
    /\ success' = (success /\ finished)
    /\ pc' = AfterDispatch(cur)
    /\ cur' = cur + 1
    /\ ncalls' = IF 1 < cur /\ cur < LastStep THEN ncalls + 1 ELSE ncalls
    /\ gate' = FrameDropped(gate, cur, subscribed)
    /\ UNCHANGED <<exitCode, actionHandle, finished, subscribed,
                   executing, servoCalls, subCount, issued, unsubCount,
                   expired, sigHist>>

\* main: return 0 if success else 1
MainReturn ==
    /\ pc = "m_ret"
    /\ exitCode' = IF success THEN 0 ELSE 1
    /\ pc' = "done"
    /\ UNCHANGED <<cur, success, actionHandle, finished, gate, subscribed,
                   executing, rets, hist, expired, sigHist>>

\* an RPC fails with a transport error: the exception is caught nowhere and
\* leaves the dispatch function and main
TransportError ==
    /\ pc \in RpcPcs
    /\ pc' = "raised"
    /\ UNCHANGED <<cur, success, exitCode, actionHandle, finished, gate,
                   subscribed, executing, rets, hist, expired, sigHist>>

\* ------------------------------------------------------------------------
\* drawing.py: the notification delivery thread
\* ------------------------------------------------------------------------
\* the device emits event ev about the action a it is executing; the delivery
\* thread invokes the callback of every registered notification handle
Notify(a, ev) ==
    /\ pc \notin {"done", "raised"}
    /\ a \in executing
    /\ executing' = IF ev \in TerminalEvents THEN executing \ {a}
                    ELSE executing
    /\ gate' = [k \in Steps |->
                  IF k \in subscribed THEN check(gate[k], ev) ELSE gate[k]]
    /\ lateCalls' = lateCalls \cup {k \in subscribed : Returned(k)}
    /\ termSeen' = IF cur \in subscribed /\ ~WaitDone(cur)
                   THEN termSeen \cup ({ev} \cap TerminalEvents)
                   ELSE termSeen
    /\ otherSeen' = (otherSeen \/ (cur \in subscribed /\ ~WaitDone(cur)
                                     /\ ev \notin TerminalEvents))
    /\ ownTerm' = (ownTerm \/ (ev \in TerminalEvents /\ a = cur
                                 /\ cur \in subscribed /\ ~WaitDone(cur)))
    /\ early' = (early \/ (ev \in TerminalEvents /\ cur \in subscribed
                             /\ WaitNotBegun(cur)))
    /\ late' = (late \/ (ev \in TerminalEvents /\ cur \in subscribed
                           /\ pc = "unsubscribe" /\ cur \in expired))
    /\ UNCHANGED <<pc, cur, success, exitCode, actionHandle, finished,
                   subscribed, rets, hist, expired>>

Deliver == \E a \in Steps, ev \in ActionEvents : Notify(a, ev)

Controller ==
    \/ MainFeedback0
    \/ SetServoingMode
    \/ ReadAllActions
    \/ MainFeedback1
    \/ MainFeedback2
    \/ CartesianFeedback
    \/ Subscribe
    \/ ExecuteAction
    \/ ExecuteActionReturn
    \/ WaitSignaled
    \/ WaitTimeout
    \/ Unsubscribe
    \/ Return
    \/ MainReturn

Next ==
    \/ Controller /\ UNCHANGED gripVars
    \/ TransportError /\ UNCHANGED gripVars
    \/ Deliver /\ UNCHANGED gripVars

Spec == Init /\ [][Next]_vars

\* the controller thread is a running Python thread: it takes its next step
\* whenever it has one (a pending e.wait ends by signal or by timeout)
LiveSpec == Init /\ [][Next]_vars /\ WF_vars(Controller /\ UNCHANGED gripVars)

\* ------------------------------------------------------------------------
\* Properties of drawing.py
\* ------------------------------------------------------------------------
\* the latest dispatch that subscribed has returned to main, and no later
\* dispatch has subscribed yet: termSeen, otherSeen, early and late are about
\* dispatch cur - 1
JustReturned ==
    /\ pc \in {"m_fb1", "m_fb2", "c_fb", "subscribe", "m_ret", "done"}
    /\ cur > 0
    /\ subCount[cur - 1] > 0

\* C1: a dispatch whose callback got no END/ABORT before its e.wait ended
\* returns False; a dispatch that returned False has its notification handle
\* unsubscribed, and its callback is never invoked after the return.
C1_TimeoutReturnsFalseUnsubscribed ==
    /\ (JustReturned /\ termSeen = {}) =>
          (~Ret(cur - 1) /\ (cur - 1) \in expired)
    /\ \A k \in Steps :
          (Returned(k) /\ ~Ret(k)) => (k \notin subscribed /\ k \notin lateCalls)

\* a dispatch timed out and was unsubscribed, and the terminal event of its
\* action was emitted only after that: no callback was invoked for it
C1_Witness ==
    /\ JustReturned
    /\ termSeen = {}
    /\ ~late
    /\ ~Ret(cur - 1)
    /\ issued[cur - 1] = 1
    /\ (cur - 1) \notin executing
    /\ executing = {}
    /\ unsubCount[cur - 1] = 1

\* C2: whenever a dispatch that subscribed has exited, by return or by the
\* exception of a failed RPC, its notification handle is not registered any
\* more and was unsubscribed exactly once.
C2_UnsubscribedOnEveryExit ==
    \A k \in Steps :
        (subCount[k] > 0 /\ (Returned(k) \/ (pc = "raised" /\ cur = k))) =>
            (k \notin subscribed /\ unsubCount[k] = 1)

\* C3: once dispatch k has timed out after k dispatches that returned True,
\* main calls no further dispatch: k + 1 dispatch calls in all, no
\* subscription and no action for the later steps.
C3_FailFast ==
    \A k \in 0..(LastStep - 1) :
        (Returned(k) /\ k \in expired /\ \A j \in 0..(k - 1) : Ret(j)) =>
            /\ ncalls <= k + 1
            /\ \A j \in (k + 1)..LastStep : subCount[j] = 0 /\ issued[j] = 0

\* C4: when main has returned, every step has returned, and the exit code is
\* 0 exactly if every step returned True and 1 exactly if some step returned
\* False.
C4_ExitCode ==
    pc = "done" =>
        /\ Len(rets) = LastStep + 1
        /\ exitCode \in {0, 1}
        /\ (exitCode = 0) <=> (\A k \in Steps : Ret(k))
        /\ (exitCode = 1) <=> (\E k \in Steps : ~Ret(k))

\* main returned 1 although the steps after the failed one returned True
C4_Witness ==
    /\ pc = "done"
    /\ exitCode = 1
    /\ Ret(0)
    /\ ~Ret(2)
    /\ Ret(3)
    /\ Ret(LastStep)

\* C5: a dispatch returns True exactly if its callback got an END or an ABORT
\* before its e.wait returned; the flag of its event is set only by such an
\* event (or by one that came after the timeout).
C5_CompletedIffTerminal ==
    /\ JustReturned => (Ret(cur - 1) <=> termSeen # {})
    /\ \A k \in Steps :
          (k = cur /\ k \in subscribed /\ gate[k]) => (termSeen # {} \/ late)

\* a dispatch returned True on an ABORT alone, other events having come too
C5_Witness ==
    /\ JustReturned
    /\ Ret(cur - 1)
    /\ termSeen = {"ACTION_ABORT"}
    /\ otherSeen

\* C6: a dispatch whose callback got an END or an ABORT after it subscribed
\* and before its e.wait began returns True.
C6_EarlySignalKept ==
    (JustReturned /\ early) => (Ret(cur - 1) /\ (cur - 1) \notin expired)

\* the first dispatch was signaled while its ExecuteAction call was in
\* progress and returned True
C6_Witness ==
    /\ JustReturned
    /\ cur = 1
    /\ early
    /\ Ret(0)

\* C7: a dispatch whose callback got an END or an ABORT after its e.wait
\* timed out still returns False, and has unsubscribed exactly once.
C7_LateSignalIgnored ==
    (JustReturned /\ late) =>
        /\ ~Ret(cur - 1)
        /\ unsubCount[cur - 1] = 1
        /\ (cur - 1) \notin subscribed

\* a dispatch returned False although its callback was signaled between the
\* timeout and Unsubscribe
C7_Witness ==
    /\ JustReturned
    /\ late
    /\ (cur - 1) \in expired
    /\ ~Ret(cur - 1)

\* C8: every dispatch that has been called eventually returns to main, unless
\* an RPC fails, whatever the device emits.
C8_DispatchReturns ==
    \A k \in Steps :
        [](((cur = k) /\ (pc \in DispatchPcs)) =>
              <>(Returned(k) \/ pc = "raised"))

\* a dispatch returned although the device emitted nothing at all for it
C8_Witness ==
    /\ JustReturned
    /\ termSeen = {}
    /\ ~otherSeen
    /\ ~late
    /\ (cur - 1) \in executing
    /\ Returned(cur - 1)

\* C14: in every dispatch the subscription precedes the action, the action
\* precedes the end of the wait, the wait precedes Unsubscribe and Unsubscribe
\* precedes the return; each of the three calls is made at most once per
\* dispatch, and a dispatch that timed out has issued its action exactly once.
C14_DispatchStepOrder ==
    /\ \A k \in Steps :
          /\ subCount[k] <= 1 /\ issued[k] <= 1 /\ unsubCount[k] <= 1
          /\ issued[k] > 0 => subCount[k] = 1
          /\ (k \in expired \/ (k = cur /\ pc \in {"wait", "unsubscribe"}))
                => (issued[k] = 1 /\ subCount[k] = 1)
          /\ unsubCount[k] > 0 => (WaitDone(k) /\ issued[k] = 1)
          /\ (Returned(k) /\ subCount[k] > 0)
                => (unsubCount[k] = 1 /\ issued[k] = 1)
    /\ pc \in {"wait", "unsubscribe"} => unsubCount[cur] = 0
    /\ pc \in {"subscribe", "execute"} => issued[cur] = 0

\* a dispatch that timed out, other events having come in, has returned with
\* one subscription, one action and one Unsubscribe
C14_Witness ==
    /\ JustReturned
    /\ (cur - 1) \in expired
    /\ otherSeen
    /\ subCount[cur - 1] = 1
    /\ issued[cur - 1] = 1
    /\ unsubCount[cur - 1] = 1

\* C15: at most one notification handle is registered, at most one event of a
\* registered callback is set, and the device is never executing two actions
\* of the run: no action is issued while an earlier one has no terminal event.
C15_OneActionInFlight ==
    /\ Cardinality(subscribed) <= 1
    /\ Cardinality({k \in subscribed : gate[k]}) <= 1
    /\ Cardinality(executing) <= 1

\* C16: a dispatch that returned True got, before its wait returned, the END
\* or ABORT of the action that it issued itself.
C16_CompletedByOwnAction ==
    (JustReturned /\ Ret(cur - 1)) => ownTerm

\* C17: a dispatch whose callback got one or several END/ABORT events before
\* its wait returned has returned True, once, and has unsubscribed once; the
\* event of a dispatch that has subscribed and was not signaled itself is
\* clear, whatever signals earlier dispatches got.
C17_SignalIdempotent ==
    /\ (JustReturned /\ termSeen # {}) =>
          /\ Ret(cur - 1)
          /\ Len(rets) = cur
          /\ unsubCount[cur - 1] = 1
          /\ (cur - 1) \notin subscribed
    /\ \A k \in Steps :
          (k = cur /\ k \in subscribed /\ termSeen = {} /\ ~late) => ~gate[k]

\* a dispatch got both an END and an ABORT before its wait returned, and
\* returned True with one Unsubscribe
C17_Witness ==
    /\ JustReturned
    /\ termSeen = TerminalEvents
    /\ Ret(cur - 1)
    /\ unsubCount[cur - 1] = 1

\* C18: SetServoingMode is called at most once; it has been called once when
\* an action is issued, when the first dispatch is over and when main returns.
C18_ServoingModeOnce ==
    /\ servoCalls <= 1
    /\ (\E k \in Steps : issued[k] > 0) => servoCalls = 1
    /\ cur >= 1 => servoCalls = 1
    /\ pc = "done" => servoCalls = 1

\* main has returned after six actions and one SetServoingMode call
C18_Witness ==
    /\ pc = "done"
    /\ servoCalls = 1
    /\ \A k \in Steps : issued[k] = 1

\* C19: when ReadAllActions lists no action named "Home", the home dispatch
\* returns False and has made no subscription, no wait, no action and no
\* Unsubscribe; main does not return 0.
C19_HomeAbsent ==
    (Returned(0) /\ actionHandle = "None") =>
        /\ ~Ret(0)
        /\ subCount[0] = 0
        /\ issued[0] = 0
        /\ unsubCount[0] = 0
        /\ 0 \notin expired
        /\ 0 \notin subscribed
        /\ ~success
        /\ exitCode # 0
        /\ pc = "done" => exitCode = 1

\* "Home" was absent, every later step returned True, and main returned 1
C19_Witness ==
    /\ pc = "done"
    /\ actionHandle = "None"
    /\ exitCode = 1
    /\ \A k \in 1..LastStep : Ret(k)

\* ------------------------------------------------------------------------
\* 02-gripper_grabPen.py: Python floats
\* ------------------------------------------------------------------------
\* A Python float is an IEEE-754 double.  A double d is kept exactly, as a
\* sign and a magnitude d.hi * Limb + d.lo counted in units of 2^-56; the
\* operators below cover the doubles of magnitude below 4.
Limb == 2^27
HalfLimb == 2^26

\* the float literals of ExampleSendGripperCommands
D_1_00 == [neg |-> FALSE, hi |-> 536870912, lo |-> 0]
D_0_2 == [neg |-> FALSE, hi |-> 107374182, lo |-> 53687092]
D_0_0 == [neg |-> FALSE, hi |-> 0, lo |-> 0]
D_0_86 == [neg |-> FALSE, hi |-> 461708984, lo |-> 42949672]
D_m0_1 == [neg |-> TRUE, hi |-> 53687091, lo |-> 26843546]

\* doubles a measurement can report: 0.5, 0.7, 0.9, and next to the
\* threshold 0.86 itself the single-precision value nearest to 0.86 as a
\* double, 0.8600000143051147
D_0_5 == [neg |-> FALSE, hi |-> 268435456, lo |-> 0]
D_0_7 == [neg |-> FALSE, hi |-> 375809638, lo |-> 53687088]
D_0_9 == [neg |-> FALSE, hi |-> 483183820, lo |-> 107374184]
D_0_86f == [neg |-> FALSE, hi |-> 461708992, lo |-> 0]

MagLess(a, b) == a.hi < b.hi \/ (a.hi = b.hi /\ a.lo < b.lo)
IsZero(a) == a.hi = 0 /\ a.lo = 0

\* a > b on doubles
DGreater(a, b) ==
    IF IsZero(a) /\ IsZero(b) THEN FALSE
    ELSE IF a.neg # b.neg THEN b.neg
    ELSE IF a.neg THEN MagLess(a, b)
    ELSE MagLess(b, a)

\* a >= b on doubles
DGreaterEq(a, b) == ~DGreater(b, a)

\* the unit in the last place of a 53-bit significand, in units of 2^-56
RECURSIVE Ulp(_, _)
Ulp(h, u) == IF h \div u < HalfLimb THEN u ELSE Ulp(h, 2 * u)

\* round the exact magnitude (h, l) to a double: nearest, ties to even
RoundMag(h, l) ==
    LET u == Ulp(h, 1)
        r == l % u
        q == l \div u
        up == (2 * r > u) \/ (2 * r = u /\ q % 2 = 1)
        l2 == IF up THEN l - r + u ELSE l - r
    IN  IF l2 >= Limb THEN [hi |-> h + 1, lo |-> l2 - Limb]
        ELSE [hi |-> h, lo |-> l2]

MagAdd(a, b) ==
    LET l == a.lo + b.lo
    IN  IF l >= Limb THEN [hi |-> a.hi + b.hi + 1, lo |-> l - Limb]
        ELSE [hi |-> a.hi + b.hi, lo |-> l]

\* a - b for magnitudes with a >= b
MagSub(a, b) ==
    IF a.lo >= b.lo THEN [hi |-> a.hi - b.hi, lo |-> a.lo - b.lo]
    ELSE [hi |-> a.hi - b.hi - 1, lo |-> a.lo + Limb - b.lo]

Signed(n, m) ==
    LET r == RoundMag(m.hi, m.lo)
    IN  [neg |-> n /\ ~(r.hi = 0 /\ r.lo = 0), hi |-> r.hi, lo |-> r.lo]

\* a - b on doubles (position -= 0.2)
DSub(a, b) ==
    IF a.neg # b.neg THEN Signed(a.neg, MagAdd(a, b))
    ELSE IF MagLess(a, b) THEN Signed(~a.neg, MagSub(b, a))
    ELSE Signed(a.neg, MagSub(a, b))

\* (t, h, l) * 10 on three limbs
Mul10(x) ==
    LET l10 == x.l * 10
        h10 == x.h * 10 + l10 \div Limb
    IN  [t |-> x.t * 10 + h10 \div Limb, h |-> h10 % Limb, l |-> l10 % Limb]

\* "{:0.2f}".format(d): the decimal with two places nearest to |d|, as a
\* number of hundredths (ties to even); the sign is printed apart
Format2f(d) ==
    LET x == Mul10(Mul10([t |-> d.hi \div Limb, h |-> d.hi % Limb,
                          l |-> d.lo]))
        \* 1.0 is 4 units of the top limb
        q == x.t \div 4
        f == x.t % 4
        above == f > 2 \/ (f = 2 /\ (x.h > 0 \/ x.l > 0))
        tie == f = 2 /\ x.h = 0 /\ x.l = 0
    IN  IF above \/ (tie /\ q % 2 = 1) THEN q + 1 ELSE q

\* ------------------------------------------------------------------------
\* 02-gripper_grabPen.py: ExampleSendGripperCommands
\* ------------------------------------------------------------------------
\* GripperMeasure.finger as returned by GetMeasuredGripperMovement: the list
\* of the fingers' values
Measurements ==
    {<<>>, <<D_0_5>>, <<D_0_7>>, <<D_0_86>>, <<D_0_86f>>, <<D_0_9>>,
     <<D_0_5, D_0_9>>}

\* gripper_measure.finger[0].value > 0.86
ThresholdReached(v) == DGreaterEq(v, D_0_86)
ThresholdExceeded(v) == DGreater(v, D_0_86)

\* gripper_command = ...; mode = GRIPPER_POSITION; position = 1.00
GripperStart ==
    /\ gpc = "start"
    /\ position' = D_1_00
    /\ gpc' = "ramp"
    /\ UNCHANGED <<sent, polls>>

\* one iteration of  while position > 0.0:  finger.value = position;
\* SendGripperCommand(gripper_command); position -= 0.2; time.sleep(1)
RampSend ==
    /\ gpc = "ramp"
    /\ DGreater(position, D_0_0)
    /\ sent' = Append(sent, [mode |-> "GRIPPER_POSITION", value |-> position])
    /\ position' = DSub(position, D_0_2)
    /\ UNCHANGED <<gpc, polls>>

\* the loop condition position > 0.0 is false
RampExit ==
    /\ gpc = "ramp"
    /\ ~DGreater(position, D_0_0)
    /\ gpc' = "speed"
    /\ UNCHANGED <<position, sent, polls>>

\* mode = GRIPPER_SPEED; finger.value = -0.1; SendGripperCommand
SendSpeedOpening ==
    /\ gpc = "speed"
    /\ sent' = Append(sent, [mode |-> "GRIPPER_SPEED",
                             value |-> [D_m0_1 EXCEPT !.neg = FALSE]])
    /\ gpc' = "poll"
    /\ UNCHANGED <<position, polls>>
SendSpeed ==
    /\ gpc = "speed"
    /\ sent' = Append(sent, [mode |-> "GRIPPER_SPEED", value |-> D_m0_1])
    /\ gpc' = "poll"
    /\ UNCHANGED <<position, polls>>

\* one iteration of  while True:  the device answers measure
PollReadsFirstFinger(measure) ==
    /\ gpc = "poll"
    /\ Len(polls) < MaxPolls
    /\ polls' = Append(polls, measure)
    /\ IF Len(measure) # 0
       THEN IF ThresholdExceeded(measure[1])
            THEN gpc' = "returned"
            ELSE gpc' = "poll"
       ELSE gpc' = "raised"
    /\ UNCHANGED <<position, sent>>
PollGivesUp(measure) ==
    /\ gpc = "poll"
    /\ Len(polls) < MaxPolls
    /\ polls' = Append(polls, measure)
    /\ IF Len(measure) # 0
       THEN IF ThresholdExceeded(measure[1]) \/ Len(polls) >= 2
            THEN gpc' = "returned"
            ELSE gpc' = "poll"
       ELSE gpc' = "returned"
    /\ UNCHANGED <<position, sent>>
Poll(measure) ==
    /\ gpc = "poll"
    /\ Len(polls) < MaxPolls
    /\ polls' = Append(polls, measure)
    /\ IF Len(measure) # 0
       THEN IF ThresholdExceeded(measure[1])
            THEN gpc' = "returned"
            ELSE gpc' = "poll"
       ELSE gpc' = "returned"
    /\ UNCHANGED <<position, sent>>

\* SendGripperCommand or GetMeasuredGripperMovement fails with a transport
\* error, which leaves ExampleSendGripperCommands
GripperTransportError ==
    /\ \/ gpc = "ramp" /\ DGreater(position, D_0_0)
       \/ gpc = "speed"
       \/ gpc = "poll" /\ Len(polls) < MaxPolls
    /\ gpc' = "raised"
    /\ UNCHANGED <<position, sent, polls>>

GripperNext ==
    \/ GripperStart /\ UNCHANGED drawVars
    \/ RampSend /\ UNCHANGED drawVars
    \/ RampExit /\ UNCHANGED drawVars
    \/ SendSpeed /\ UNCHANGED drawVars
    \/ (\E measure \in Measurements : Poll(measure)) /\ UNCHANGED drawVars
    \/ GripperTransportError /\ UNCHANGED drawVars

GripperSpec == Init /\ [][GripperNext]_vars

\* ------------------------------------------------------------------------
\* Properties of 02-gripper_grabPen.py
\* ------------------------------------------------------------------------
\* the values printed by "Going to position {:0.2f}...", in hundredths, of
\* the POSITION-mode commands of s
RECURSIVE PrintedRamp(_)
PrintedRamp(s) ==
    IF s = <<>> THEN <<>>
    ELSE IF Head(s).mode = "GRIPPER_POSITION"
         THEN <<Format2f(Head(s).value)>> \o PrintedRamp(Tail(s))
         ELSE PrintedRamp(Tail(s))

\* C9: once the ramp loop has ended, the POSITION-mode commands sent are
\* exactly five, with the values 1.00, 0.80, 0.60, 0.40, 0.20 in that order.
C9_RampFiveCommands ==
    gpc \in {"speed", "poll", "returned"} =>
        PrintedRamp(sent) = <<100, 80, 60, 40, 20>>

\* measurement i of the polling loop reports a finger above the threshold
Above(i) == polls[i] # <<>> /\ DGreater(polls[i][1], D_0_86)
AllMeasured == \A i \in 1..Len(polls) : polls[i] # <<>>

\* C10: with measurements that all report a finger, no request follows a
\* measurement above 0.86, the loop has ended exactly if the latest
\* measurement is above 0.86, and a measurement equal to 0.86 does not end it.
C10_PollingStopsAboveThreshold ==
    (AllMeasured /\ Len(polls) > 0) =>
        /\ \A i \in 1..(Len(polls) - 1) : ~Above(i)
        /\ Above(Len(polls)) <=> (gpc = "returned")
        /\ (polls[Len(polls)][1] = D_0_86) => gpc # "returned"

\* the stream 0.5, 0.7, 0.86, 0.90 was polled with four requests
C10_Witness ==
    /\ polls = << <<D_0_5>>, <<D_0_7>>, <<D_0_86>>, <<D_0_9>> >>
    /\ gpc = "returned"

\* C11: a measurement with an empty finger list is the last one requested:
\* the function has returned at that poll, without an exception, and the
\* SPEED command is still the last gripper command sent.
C11_EmptyMeasurementEndsPolling ==
    \A i \in 1..Len(polls) :
        polls[i] = <<>> =>
            /\ i = Len(polls)
            /\ gpc = "returned"
            /\ sent # <<>>
            /\ sent[Len(sent)].mode = "GRIPPER_SPEED"

\* the very first poll reported no finger and the function returned
C11_Witness ==
    /\ polls = << <<>> >>
    /\ gpc = "returned"

\* measurement i reports a finger at or below the threshold
Low(i) == polls[i] # <<>> /\ ~DGreater(polls[i][1], D_0_86)

\* C12: the polling loop has ended (without an exception) exactly if the
\* latest measurement is above 0.86 or has no finger; as long as every
\* measurement reports a finger at or below 0.86 the function has not
\* returned, however many requests were made.
C12_PollingEndsOnlyOnMeasurement ==
    /\ (gpc = "returned") <=>
          (Len(polls) > 0 /\ (Above(Len(polls)) \/ polls[Len(polls)] = <<>>))
    /\ (\A i \in 1..Len(polls) : Low(i)) => gpc # "returned"

\* the device has answered at or below 0.86 to every request the model
\* follows and the loop is still polling
C12_Witness ==
    /\ Len(polls) = MaxPolls
    /\ \A i \in 1..Len(polls) : Low(i)
    /\ polls[Len(polls)] = <<D_0_86>>
    /\ gpc = "poll"

\* the positions in sent of the SPEED-mode commands
SpeedCommands == {i \in 1..Len(sent) : sent[i].mode = "GRIPPER_SPEED"}

\* C13: at most one SPEED-mode command is sent, it has the value -0.1 and is
\* the last command sent, so every POSITION-mode command precedes it and no
\* command follows it; it has been sent once polling is reached, and every
\* measurement request comes after it.
C13_CommandOrder ==
    /\ Cardinality(SpeedCommands) <= 1
    /\ \A i \in SpeedCommands :
          /\ i = Len(sent)
          /\ sent[i].value = D_m0_1
          /\ sent[i].value.neg
    /\ \A i \in 1..Len(sent) :
          i \notin SpeedCommands => sent[i].mode = "GRIPPER_POSITION"
    /\ (gpc \in {"poll", "returned"} \/ Len(polls) > 0) =>
          Cardinality(SpeedCommands) = 1
    /\ gpc \in {"start", "ramp", "speed"} => (SpeedCommands = {} /\ polls = <<>>)

\* the ramp, the SPEED command and two measurement requests have happened
C13_Witness ==
    /\ gpc = "returned"
    /\ Len(polls) = 2
    /\ Len(sent) > 1
    /\ SpeedCommands = {Len(sent)}

====
